---- MODULE Spec2Model ----
(***************************************************************************)
(* A model of tabtabtab_lib: the value types of extension_interface.py and *)
(* their to_dict serializers, the three abstract handlers of               *)
(* ExtensionInterface, send_push_notification with the injected            *)
(* SSESenderInterface, and the ExtensionDescriptor metadata of             *)
(* extension_directory.py.                                                 *)
(*                                                                         *)
(* Python objects are records with a cls field; None is None_.  A dict is  *)
(* a function whose domain is its key set.                                 *)
(***************************************************************************)
EXTENDS Naturals, Sequences, FiniteSets

VARIABLES
    op,         \* the operation that ran last
    obj,        \* the value it returned (a handler) or was applied to
    wire,       \* the dict a to_dict call produced, NoWire before any
    wireList,   \* the list form of an OnContextResponse
    accepted,   \* the result of the last is_accepted call
    ext,        \* the ExtensionInterface instances (self.* fields)
    notifs,     \* the Notification objects extensions push
    dictHeap,   \* the dict objects notification_dict refers to
    call,       \* the send_push_notification coroutines
    sent,       \* the send_event calls the sender received, in order
    directory   \* the ExtensionDescriptors of a directory, by extension_id

vars == <<op, obj, wire, wireList, accepted, ext, notifs, dictHeap, call, sent,
          directory>>

(***************************************************************************)
(* Bounds of the model.                                                    *)
(***************************************************************************)
MaxContexts == 2
MaxCalls == 2
MaxDependencies == 2

-----------------------------------------------------------------------------
(***************************************************************************)
(* Value types.                                                            *)
(***************************************************************************)
None_ == [cls |-> "NoneType"]

EmptyDict == [k \in {} |-> k]

NoWire == [no_wire |-> TRUE]

\* The members of the enum, by name.
NotificationStatus == {"PENDING", "READY", "ERROR"}

\* Variant: member.name in place of member.value.
NotificationStatus_value_name(status) == status

\* member.value
NotificationStatus_value(status) ==
    CASE status = "PENDING" -> "pending"
      [] status = "READY" -> "ready"
      [] status = "ERROR" -> "error"

RequestIds == {"r1", "r2"}
Titles == {"Saved", "Failed"}
Details == {"Saved your text", ""}
Contents == {"hello", ""}

Notification ==
    [cls : {"Notification"}, request_id : RequestIds, title : Titles,
     detail : Details, content : Contents, status : NotificationStatus]

ImmediatePaste == [cls : {"ImmediatePaste"}, content : Contents]

\* CopyResponse.notification is declared Notification; to_dict tests it for
\* truth, so None is a value it is written to meet.
CopyResponse == [cls : {"CopyResponse"}, notification : Notification \cup {None_}]

\* on_paste documents the content to paste and the message as optional, and
\* to_dict has a branch for neither.
PasteResponse ==
    [cls : {"PasteResponse"},
     paste : Notification \cup ImmediatePaste \cup {None_}]

Descriptions == {"url", "text"}
ContextTexts == {"text", "body"}

ExtensionContext ==
    [cls : {"ExtensionContext"}, description : Descriptions, context : ContextTexts]

ContextLists == UNION {[1..n -> ExtensionContext] : n \in 0..MaxContexts}

OnContextResponse == [cls : {"OnContextResponse"}, contexts : ContextLists]

\* The keys Notification.to_dict writes.
NotificationKeys ==
    {"notification_request_id", "notification_title", "notification_detail",
     "notification_content", "notification_status"}

\* k in d
HasKey(d, k) == k \in DOMAIN d

isinstance(x, cls) == x.cls = cls

\* bool(x) of a dataclass instance (no __bool__, no __len__) or of None.
Truthy(x) == x # None_

\* Variant: the status is serialized by its name.
Notification_to_dict_status_name(self) ==
    [notification_request_id |-> self.request_id,
     notification_title |-> self.title,
     notification_detail |-> self.detail,
     notification_content |-> self.content,
     notification_status |-> NotificationStatus_value_name(self.status)]

\* Variant: the status written does not depend on self.status.
Notification_to_dict_constant_status(self) ==
    [notification_request_id |-> self.request_id,
     notification_title |-> self.title,
     notification_detail |-> self.detail,
     notification_content |-> self.content,
     notification_status |-> "pending"]

\* Notification.to_dict
Notification_to_dict(self) ==
    [notification_request_id |-> self.request_id,
     notification_title |-> self.title,
     notification_detail |-> self.detail,
     notification_content |-> self.content,
     notification_status |-> NotificationStatus_value(self.status)]

\* ImmediatePaste.to_dict
ImmediatePaste_to_dict(self) == [immediate_paste_content |-> self.content]

\* Variant: the notification is never assigned into the dict.
CopyResponse_to_dict_unassigned(self) == EmptyDict

\* CopyResponse.to_dict
CopyResponse_to_dict(self) ==
    IF Truthy(self.notification)
    THEN [notification |-> Notification_to_dict(self.notification)]
    ELSE EmptyDict

\* Variant: a Notification is written under both keys.
PasteResponse_to_dict_both_keys(self) ==
    IF isinstance(self.paste, "Notification")
    THEN [notification |-> Notification_to_dict(self.paste),
          immediate_paste |-> [immediate_paste_content |-> self.paste.content]]
    ELSE IF isinstance(self.paste, "ImmediatePaste")
    THEN [immediate_paste |-> ImmediatePaste_to_dict(self.paste)]
    ELSE EmptyDict

\* PasteResponse.to_dict
PasteResponse_to_dict(self) ==
    IF isinstance(self.paste, "Notification")
    THEN [notification |-> Notification_to_dict(self.paste)]
    ELSE IF isinstance(self.paste, "ImmediatePaste")
    THEN [immediate_paste |-> ImmediatePaste_to_dict(self.paste)]
    ELSE EmptyDict

\* The wire shape of an OnContextResponse: the ordered list of
\* {description, context}.  The class has no serializer of its own.
OnContextResponse_wire(self) ==
    [i \in 1..Len(self.contexts) |->
        [description |-> self.contexts[i].description,
         context |-> self.contexts[i].context]]

\* The current contract revision of PasteResponse: an optional paste and
\* the is_processing_task flag.
PasteResponseCurrent ==
    [cls : {"PasteResponse"},
     paste : Notification \cup ImmediatePaste \cup {None_},
     is_processing_task : BOOLEAN]

\* Variant: the flag is ignored.
PasteResponse_is_accepted_paste_only(self) == self.paste # None_

\* PasteResponse.is_accepted
PasteResponse_is_accepted(self) == self.paste # None_ \/ self.is_processing_task

-----------------------------------------------------------------------------
(***************************************************************************)
(* The handlers, as the host sees them, and the serializers.               *)
(***************************************************************************)
\* An implementation of on_copy returns a CopyResponse or None.
on_copy ==
    /\ \E r \in CopyResponse \cup {None_} : obj' = r
    /\ op' = "on_copy"
    /\ wire' = NoWire
    /\ wireList' = <<>>
    /\ accepted' = FALSE
    /\ UNCHANGED <<ext, notifs, dictHeap, call, sent, directory>>

on_paste ==
    /\ \E r \in PasteResponse \cup {None_} : obj' = r
    /\ op' = "on_paste"
    /\ wire' = NoWire
    /\ wireList' = <<>>
    /\ accepted' = FALSE
    /\ UNCHANGED <<ext, notifs, dictHeap, call, sent, directory>>

on_context_request ==
    /\ \E r \in OnContextResponse \cup {None_} : obj' = r
    /\ op' = "on_context_request"
    /\ wire' = NoWire
    /\ wireList' = <<>>
    /\ accepted' = FALSE
    /\ UNCHANGED <<ext, notifs, dictHeap, call, sent, directory>>

\* The host serializes the response a handler returned.
SerializeCopyResponse ==
    /\ op = "on_copy"
    /\ obj # None_
    /\ op' = "CopyResponse.to_dict"
    /\ wire' = CopyResponse_to_dict(obj)
    /\ UNCHANGED <<obj, wireList, accepted, ext, notifs, dictHeap, call, sent, directory>>

SerializePasteResponse ==
    /\ op = "on_paste"
    /\ obj # None_
    /\ op' = "PasteResponse.to_dict"
    /\ wire' = PasteResponse_to_dict(obj)
    /\ UNCHANGED <<obj, wireList, accepted, ext, notifs, dictHeap, call, sent, directory>>

SerializeOnContextResponse ==
    /\ op = "on_context_request"
    /\ obj # None_
    /\ op' = "OnContextResponse.wire"
    /\ wireList' = OnContextResponse_wire(obj)
    /\ UNCHANGED <<obj, wire, accepted, ext, notifs, dictHeap, call, sent, directory>>

SerializeNotification ==
    /\ \E n \in Notification :
        /\ obj' = n
        /\ wire' = Notification_to_dict(n)
    /\ op' = "Notification.to_dict"
    /\ wireList' = <<>>
    /\ accepted' = FALSE
    /\ UNCHANGED <<ext, notifs, dictHeap, call, sent, directory>>

SerializeImmediatePaste ==
    /\ \E p \in ImmediatePaste :
        /\ obj' = p
        /\ wire' = ImmediatePaste_to_dict(p)
    /\ op' = "ImmediatePaste.to_dict"
    /\ wireList' = <<>>
    /\ accepted' = FALSE
    /\ UNCHANGED <<ext, notifs, dictHeap, call, sent, directory>>

IsAccepted ==
    /\ \E r \in PasteResponseCurrent :
        /\ obj' = r
        /\ accepted' = PasteResponse_is_accepted(r)
    /\ op' = "PasteResponse.is_accepted"
    /\ wire' = NoWire
    /\ wireList' = <<>>
    /\ UNCHANGED <<ext, notifs, dictHeap, call, sent, directory>>

-----------------------------------------------------------------------------
InitValues ==
    /\ op = "init"
    /\ obj = None_
    /\ wire = NoWire
    /\ wireList = <<>>
    /\ accepted = FALSE
    /\ ext = <<>>
    /\ notifs = <<>>
    /\ dictHeap = <<>>
    /\ call = <<>>
    /\ sent = <<>>
    /\ directory = <<>>

NextValues ==
    \/ on_copy
    \/ on_paste
    \/ on_context_request
    \/ SerializeCopyResponse
    \/ SerializePasteResponse
    \/ SerializeOnContextResponse
    \/ SerializeNotification
    \/ SerializeImmediatePaste
    \/ IsAccepted

SpecValues == InitValues /\ [][NextValues]_vars

-----------------------------------------------------------------------------
(***************************************************************************)
(* ExtensionInterface: construction and send_push_notification.            *)
(***************************************************************************)
Extensions == {"e1", "e2"}
ExtensionIds == {"extA", "extB"}
Senders == {"sse"}
LLMProcessors == {"llm"}
DeviceIds == {"d1", "d2"}
Calls == 1..MaxCalls

\* The Notification objects the extensions are handed.
NotificationRefs == {1, 2}

InitialNotifications ==
    [n \in NotificationRefs |->
        IF n = 1
        THEN [cls |-> "Notification", request_id |-> "r1", title |-> "Saved",
              detail |-> "Saved your text", content |-> "hello",
              status |-> "PENDING"]
        ELSE [cls |-> "Notification", request_id |-> "r2", title |-> "Failed",
              detail |-> "", content |-> "", status |-> "ERROR"]]

NotConstructed == [constructed |-> FALSE]

IdleCall ==
    [pc |-> "idle", self |-> "", device_id |-> "", notification |-> 0,
     notification_dict |-> 0, result |-> "unset"]

\* d[k] = v on a dict.
DictSet(d, k, v) == [x \in DOMAIN d \cup {k} |-> IF x = k THEN v ELSE d[x]]

\* Variant: to_dict keeps one dict per Notification object and returns it
\* again.
CachedDict(c, n) == MaxCalls + n

\* The dict object the to_dict call of coroutine c returns: the dict literal
\* makes a new one for every call.
NewDict(c, n) == c

DictRefs == 1..(MaxCalls + Cardinality(NotificationRefs))

\* ExtensionInterface.__init__
ExtensionInit(e, sse_sender, llm_processor, extension_id) ==
    /\ ext[e] = NotConstructed
    /\ ext' = [ext EXCEPT ![e] =
                  [constructed |-> TRUE, api_key |-> None_,
                   llm_processor |-> llm_processor, sse_sender |-> sse_sender,
                   extension_id |-> extension_id]]
    /\ UNCHANGED <<op, obj, wire, wireList, accepted, notifs, dictHeap, call, sent,
                   directory>>

\* The call: the coroutine of send_push_notification starts.  Calls take
\* their slots in order.
SendPushNotification(c, e, device_id, n) ==
    /\ call[c].pc = "idle"
    /\ c > 1 => call[c - 1].pc # "idle"
    /\ ext[e] # NotConstructed
    /\ call' = [call EXCEPT ![c] =
                   [IdleCall EXCEPT !.pc = "to_dict", !.self = e,
                                    !.device_id = device_id, !.notification = n]]
    /\ UNCHANGED <<op, obj, wire, wireList, accepted, ext, notifs, dictHeap, sent,
                   directory>>

\* notification_dict = notification.to_dict()
ToDict(c) ==
    /\ call[c].pc = "to_dict"
    /\ LET ref == NewDict(c, call[c].notification)
       IN  /\ dictHeap' = [dictHeap EXCEPT ![ref] =
                              Notification_to_dict(notifs[call[c].notification])]
           /\ call' = [call EXCEPT ![c].notification_dict = ref, ![c].pc = "stamp"]
    /\ UNCHANGED <<op, obj, wire, wireList, accepted, ext, notifs, sent, directory>>

\* Variant: the id is not added.
Stamp_none(d, extension_id) == d

\* notification_dict["extension_id"] = self.extension_id
Stamp(d, extension_id) == DictSet(d, "extension_id", extension_id)

StampDict(c) ==
    /\ call[c].pc = "stamp"
    /\ dictHeap' = [dictHeap EXCEPT ![call[c].notification_dict] =
                       Stamp(@, ext[call[c].self].extension_id)]
    /\ call' = [call EXCEPT ![c].pc = "send_event"]
    /\ UNCHANGED <<op, obj, wire, wireList, accepted, ext, notifs, sent, directory>>

\* Variant: send_event is started as a task of its own and not awaited.
AfterSendEvent_detached(c) == [call[c] EXCEPT !.pc = "returned", !.result = "None"]

\* What the caller is left with once send_event has been called on the
\* sender: suspended in the await.
AfterSendEvent(c) == [call[c] EXCEPT !.pc = "awaiting"]

\* await self.sse_sender.send_event(device_id, "extension_notification",
\* notification_dict): the call reaches the sender.
SendEvent(c) ==
    /\ call[c].pc = "send_event"
    /\ sent' = Append(sent,
                   [call |-> c, sender |-> ext[call[c].self].sse_sender,
                    device_id |-> call[c].device_id,
                    event_name |-> "extension_notification",
                    data |-> dictHeap[call[c].notification_dict],
                    status |-> "pending"])
    /\ call' = [call EXCEPT ![c] = AfterSendEvent(c)]
    /\ UNCHANGED <<op, obj, wire, wireList, accepted, ext, notifs, dictHeap, directory>>

EventOf(c) == CHOOSE i \in 1..Len(sent) : sent[i].call = c

HasPendingEvent(c) ==
    \E i \in 1..Len(sent) : sent[i].call = c /\ sent[i].status = "pending"

\* send_event completes: the caller, suspended in the await, resumes and
\* send_push_notification returns None.
SendEventReturns(c) ==
    /\ HasPendingEvent(c)
    /\ sent' = [sent EXCEPT ![EventOf(c)].status = "completed"]
    /\ call' = [call EXCEPT ![c] =
                   IF @.pc = "awaiting"
                   THEN [@ EXCEPT !.pc = "returned", !.result = "None"]
                   ELSE @]
    /\ UNCHANGED <<op, obj, wire, wireList, accepted, ext, notifs, dictHeap, directory>>

\* send_event raises: the exception leaves the await of the suspended
\* caller, and send_push_notification with it.
SendEventRaises(c) ==
    /\ HasPendingEvent(c)
    /\ sent' = [sent EXCEPT ![EventOf(c)].status = "failed"]
    /\ call' = [call EXCEPT ![c] =
                   IF @.pc = "awaiting"
                   THEN [@ EXCEPT !.pc = "raised", !.result = "exception"]
                   ELSE @]
    /\ UNCHANGED <<op, obj, wire, wireList, accepted, ext, notifs, dictHeap, directory>>

InitPush ==
    /\ op = "init"
    /\ obj = None_
    /\ wire = NoWire
    /\ wireList = <<>>
    /\ accepted = FALSE
    /\ ext = [e \in Extensions |-> NotConstructed]
    /\ notifs = InitialNotifications
    /\ dictHeap = [r \in DictRefs |-> EmptyDict]
    /\ call = [c \in Calls |-> IdleCall]
    /\ sent = <<>>
    /\ directory = <<>>

NextPush ==
    \/ \E e \in Extensions, s \in Senders, l \in LLMProcessors, id \in ExtensionIds :
           ExtensionInit(e, s, l, id)
    \/ \E c \in Calls, e \in Extensions, d \in DeviceIds, n \in NotificationRefs :
           SendPushNotification(c, e, d, n)
    \/ \E c \in Calls : ToDict(c)
    \/ \E c \in Calls : StampDict(c)
    \/ \E c \in Calls : SendEvent(c)
    \/ \E c \in Calls : SendEventReturns(c)
    \/ \E c \in Calls : SendEventRaises(c)

SpecPush == InitPush /\ [][NextPush]_vars

-----------------------------------------------------------------------------
(***************************************************************************)
(* extension_directory: ExtensionDescriptor and a directory of them.       *)
(***************************************************************************)
\* The members a host gives its BaseExtensionID subclass; the members of
\* its BaseExtensionDependencies subclass name the same extensions.
ExtensionIDMembers == {"A", "B", "C"}

DependencyLists == UNION {[1..n -> ExtensionIDMembers] : n \in 0..MaxDependencies}

NotRegistered == [registered |-> FALSE]

\* The dataclass constructor: it stores its four arguments and checks nothing.
ExtensionDescriptor(extension_id, description, dependencies, extension_class) ==
    [registered |-> TRUE, extension_id |-> extension_id,
     description |-> description, dependencies |-> dependencies,
     extension_class |-> extension_class]

\* A descriptor is built and entered in the directory under its id.
RegisterDescriptor(id, deps) ==
    /\ directory' = [directory EXCEPT ![id] =
                        ExtensionDescriptor(id, "description", deps, "ExtensionClass")]
    /\ UNCHANGED <<op, obj, wire, wireList, accepted, ext, notifs, dictHeap, call, sent>>

InitDirectory ==
    /\ op = "init"
    /\ obj = None_
    /\ wire = NoWire
    /\ wireList = <<>>
    /\ accepted = FALSE
    /\ ext = <<>>
    /\ notifs = <<>>
    /\ dictHeap = <<>>
    /\ call = <<>>
    /\ sent = <<>>
    /\ directory = [id \in ExtensionIDMembers |-> NotRegistered]

NextDirectory ==
    \E id \in ExtensionIDMembers, deps \in DependencyLists : RegisterDescriptor(id, deps)

SpecDirectory == InitDirectory /\ [][NextDirectory]_vars

-----------------------------------------------------------------------------
(***************************************************************************)
(* Properties of the directory (checked under SpecDirectory).              *)
(***************************************************************************)
DependsOn(a, b) ==
    /\ directory[a] # NotRegistered
    /\ directory[b] # NotRegistered
    /\ \E i \in 1..Len(directory[a].dependencies) : directory[a].dependencies[i] = b

RECURSIVE ReachesWithin(_, _, _)
ReachesWithin(a, b, n) ==
    /\ n > 0
    /\ \/ DependsOn(a, b)
       \/ \E m \in ExtensionIDMembers : DependsOn(a, m) /\ ReachesWithin(m, b, n - 1)

\* C8: the dependency graph of the descriptors in a directory is acyclic: no
\* descriptor reaches itself through dependencies (in particular no two
\* descriptors depend on each other).
C8_DirectoryAcyclic ==
    \A a \in ExtensionIDMembers :
        ~ReachesWithin(a, a, Cardinality(ExtensionIDMembers))

-----------------------------------------------------------------------------
(***************************************************************************)
(* Properties of send_push_notification (checked under SpecPush).          *)
(***************************************************************************)
EventsOf(c) == {i \in 1..Len(sent) : sent[i].call = c}

Started(c) == call[c].pc \in {"awaiting", "returned", "raised"}

\* The payload the caller of call c is owed: the notification's serialized
\* form with the issuing extension's id added.
IsStampedFormOf(data, c) ==
    /\ DOMAIN data = NotificationKeys \cup {"extension_id"}
    /\ \A k \in NotificationKeys :
           data[k] = Notification_to_dict(notifs[call[c].notification])[k]
    /\ data["extension_id"] = ext[call[c].self].extension_id

\* C1: a call of send_push_notification(device_id, notification) makes
\* exactly one send_event call, on the injected sender, with the same
\* device_id, the event name "extension_notification", and as data the
\* notification's five serialized keys unchanged plus extension_id, the
\* calling extension's id; before that line it has made none.
C1_OneStampedSendEvent ==
    \A c \in Calls :
        /\ ~Started(c) => EventsOf(c) = {}
        /\ Started(c) =>
               /\ Cardinality(EventsOf(c)) = 1
               /\ \A i \in EventsOf(c) :
                      /\ sent[i].sender = ext[call[c].self].sse_sender
                      /\ sent[i].device_id = call[c].device_id
                      /\ sent[i].event_name = "extension_notification"
                      /\ IsStampedFormOf(sent[i].data, c)

C1_Witness ==
    \E c \in Calls :
        /\ call[c].pc = "returned"
        /\ call[c].device_id = "d2"
        /\ ext[call[c].self].extension_id = "extB"
        /\ \E i \in EventsOf(c) :
               /\ sent[i].device_id = "d2"
               /\ sent[i].data["extension_id"] = "extB"
               /\ sent[i].data["notification_status"] = "error"

\* C9 as stated: send_push_notification is fire-and-forget, so a send_event
\* that fails raises no fault into the caller of send_push_notification.
C9_SenderFaultNeverReachesCaller ==
    \A i \in 1..Len(sent) :
        sent[i].status = "failed" => call[sent[i].call].pc # "raised"

\* C9 as amended: send_push_notification returns no value and no delivery
\* confirmation, but it awaits send_event: it has returned (None) only when
\* its send_event has completed, it is suspended for as long as its
\* send_event is pending, and it has raised exactly when its send_event
\* failed.
C9_CallerAwaitsSendEvent ==
    \A c \in Calls :
        /\ call[c].result \in {"unset", "None", "exception"}
        /\ call[c].pc = "returned" =>
               /\ call[c].result = "None"
               /\ \E i \in EventsOf(c) : sent[i].status = "completed"
        /\ call[c].pc = "raised" =>
               /\ call[c].result = "exception"
               /\ \E i \in EventsOf(c) : sent[i].status = "failed"
        /\ \A i \in EventsOf(c) :
               /\ sent[i].status = "pending" => call[c].pc = "awaiting"
               /\ sent[i].status = "failed" => call[c].pc = "raised"
               /\ sent[i].status = "completed" => call[c].pc = "returned"

C9_Witness ==
    \E c, d \in Calls :
        /\ call[c].pc = "raised"
        /\ \E i \in EventsOf(c) : sent[i].status = "failed"
        /\ call[d].pc = "awaiting"
        /\ \E i \in EventsOf(d) : sent[i].status = "pending"

\* Every payload the sender received carries the id of the extension whose
\* call sent it.
PayloadsCarryIssuer ==
    \A i \in 1..Len(sent) :
        /\ HasKey(sent[i].data, "extension_id")
        /\ sent[i].data["extension_id"] = ext[call[sent[i].call].self].extension_id

\* C10: under every interleaving of the calls of several extensions that
\* share the sender and may pass the same Notification object, every
\* send_event payload carries the id of the extension that issued the call,
\* the Notification objects keep their five fields, and a constructed
\* extension keeps its extension_id, sse_sender and llm_processor.
C10_CallsDoNotInterfere ==
    /\ [](PayloadsCarryIssuer /\ notifs = InitialNotifications)
    /\ [][\A e \in Extensions : ext[e] # NotConstructed => ext'[e] = ext[e]]_vars

C10_Witness ==
    /\ Len(sent) = 2
    /\ sent[1].call = 2
    /\ sent[2].call = 1
    /\ call[1].notification = call[2].notification
    /\ call[1].self # call[2].self
    /\ sent[1].data["extension_id"] = "extA"
    /\ sent[2].data["extension_id"] = "extB"

-----------------------------------------------------------------------------
(***************************************************************************)
(* Properties of the value types (checked under SpecValues).               *)
(***************************************************************************)
HandlerOps == {"on_copy", "on_paste", "on_context_request"}

\* C2: whenever Notification.to_dict has run, its result has exactly the five
\* notification_* keys, and notification_status is the lowercase value of the
\* status tag: PENDING -> "pending", READY -> "ready", ERROR -> "error".
C2_NotificationKeysAndStatus ==
    op = "Notification.to_dict" =>
        /\ DOMAIN wire = NotificationKeys
        /\ wire.notification_status \in {"pending", "ready", "error"}
        /\ obj.status = "PENDING" => wire.notification_status = "pending"
        /\ obj.status = "READY" => wire.notification_status = "ready"
        /\ obj.status = "ERROR" => wire.notification_status = "error"

C2_Witness ==
    /\ op = "Notification.to_dict"
    /\ obj.status = "ERROR"
    /\ wire.notification_status = "error"

\* The flag of the current revision; a response without the field has none set.
ProcessingTask(r) == HasKey(r, "is_processing_task") /\ r.is_processing_task

\* C3 as stated: PasteResponse.to_dict produces exactly one of the keys
\* notification and immediate_paste, unless is_processing_task is true with no
\* paste payload; each branch is serialized under its own key.
C3_ExactlyOneKeyUnlessProcessingTask ==
    op = "PasteResponse.to_dict" =>
        /\ \/ HasKey(wire, "notification") # HasKey(wire, "immediate_paste")
           \/ ProcessingTask(obj) /\ obj.paste = None_
        /\ isinstance(obj.paste, "Notification") => HasKey(wire, "notification")
        /\ isinstance(obj.paste, "ImmediatePaste") => HasKey(wire, "immediate_paste")

\* C3 as amended: PasteResponse.to_dict produces the key notification exactly
\* when paste is a Notification and immediate_paste exactly when paste is an
\* ImmediatePaste, never both and no other key, each holding the payload's own
\* serialized form; it produces neither key exactly when no paste payload is
\* present.
C3_KeyFollowsBranch ==
    op = "PasteResponse.to_dict" =>
        /\ DOMAIN wire \subseteq {"notification", "immediate_paste"}
        /\ ~(HasKey(wire, "notification") /\ HasKey(wire, "immediate_paste"))
        /\ HasKey(wire, "notification") <=> isinstance(obj.paste, "Notification")
        /\ HasKey(wire, "immediate_paste") <=> isinstance(obj.paste, "ImmediatePaste")
        /\ (DOMAIN wire = {}) <=> (obj.paste = None_)
        /\ HasKey(wire, "notification") =>
               /\ DOMAIN wire.notification = NotificationKeys
               /\ wire.notification.notification_request_id = obj.paste.request_id
        /\ HasKey(wire, "immediate_paste") =>
               wire.immediate_paste.immediate_paste_content = obj.paste.content

C3_Witness ==
    /\ op = "PasteResponse.to_dict"
    /\ obj.paste = None_
    /\ DOMAIN wire = {}

\* C4: CopyResponse.to_dict always yields the key is_processing_task with a
\* boolean value, and the key notification exactly when a notification is
\* present (for the scenario's response: notification_status "pending" and
\* is_processing_task true).
C4_CopyResponseCarriesProcessingFlag ==
    op = "CopyResponse.to_dict" =>
        /\ HasKey(wire, "is_processing_task")
        /\ wire.is_processing_task \in BOOLEAN
        /\ HasKey(wire, "notification") <=> (obj.notification # None_)

CarriesError(r) ==
    /\ r # None_
    /\ \/ /\ isinstance(r, "CopyResponse")
          /\ r.notification # None_
          /\ r.notification.status = "ERROR"
       \/ /\ isinstance(r, "PasteResponse")
          /\ isinstance(r.paste, "Notification")
          /\ r.paste.status = "ERROR"

\* C6: for each handler, returning None and returning a response that carries
\* an ERROR notification stay distinguishable: absence is None and is never
\* serialized, while the ERROR response is not None and serializes to a
\* non-empty dict whose notification has notification_status "error".
C6_AbsenceDistinctFromError ==
    /\ op \in HandlerOps /\ obj = None_ => wire = NoWire /\ ~CarriesError(obj)
    /\ op \in {"CopyResponse.to_dict", "PasteResponse.to_dict"} => obj # None_
    /\ op \in {"CopyResponse.to_dict", "PasteResponse.to_dict"} /\ CarriesError(obj) =>
           /\ wire # NoWire
           /\ DOMAIN wire # {}
           /\ HasKey(wire, "notification")
           /\ wire.notification.notification_status = "error"

C6_Witness ==
    /\ op = "CopyResponse.to_dict"
    /\ CarriesError(obj)
    /\ wire.notification.notification_status = "error"

\* C7: serialization of a Notification, an ImmediatePaste and an
\* OnContextResponse loses nothing: every field is read back from its
\* documented key (the status from its value, the contexts in their order),
\* and no other value of the type serializes to the same structure.
C7_RoundTripLossless ==
    /\ op = "Notification.to_dict" =>
           /\ wire.notification_request_id = obj.request_id
           /\ wire.notification_title = obj.title
           /\ wire.notification_detail = obj.detail
           /\ wire.notification_content = obj.content
           /\ \A s \in NotificationStatus :
                  NotificationStatus_value(s) = wire.notification_status
                      <=> s = obj.status
           /\ \A o \in Notification : Notification_to_dict(o) = wire => o = obj
    /\ op = "ImmediatePaste.to_dict" =>
           /\ wire.immediate_paste_content = obj.content
           /\ \A o \in ImmediatePaste : ImmediatePaste_to_dict(o) = wire => o = obj
    /\ op = "OnContextResponse.wire" =>
           /\ Len(wireList) = Len(obj.contexts)
           /\ \A i \in 1..Len(wireList) :
                  /\ DOMAIN wireList[i] = {"description", "context"}
                  /\ wireList[i].description = obj.contexts[i].description
                  /\ wireList[i].context = obj.contexts[i].context
           /\ \A o \in OnContextResponse :
                  OnContextResponse_wire(o) = wireList => o = obj

C7_Witness ==
    /\ op = "Notification.to_dict"
    /\ obj.status = "READY"
    /\ obj.content = "hello"
    /\ wire.notification_status = "ready"
    /\ wire.notification_content = "hello"

====
